---- MODULE Spec2Model ----
(***************************************************************************)
(* daily_stats_bot: the extractor (daily_bot_stats_extract.py) queries the *)
(* warehouse, flattens four result sets into one mapping and hands it to   *)
(* the notifier (revii_stats_notify.py), which queries the analytics API   *)
(* over two grids, builds the report and posts it to the chat webhook.     *)
(***************************************************************************)
EXTENDS Integers, Sequences, FiniteSets, TLC

VARIABLES
    signup_churn,       \* warehouse: the table daily_bot_signup_churn
    signups_by_coupon,  \* warehouse: the table daily_bot_trial_signups_by_coupon
    coupon_rows,        \* extractor: the rows coupon_query returned in this run
    epc,        \* extractor: position in lambda_handler / get_data_from_redshift
    conn,       \* extractor: the psycopg2 connection: "none", "open", "closed"
    cursor,     \* extractor: the cursor: "none", "open", "closed"
    result,     \* extractor: the flattened mapping under construction
    eexc,       \* extractor: the exception caught by lambda_handler's except
    eraised,    \* extractor: the exception that left lambda_handler
    inflight,   \* payloads handed to the notifier (Lambda Event invocations)
    npc,        \* notifier: position in lambda_handler / extract_data
    event,      \* notifier: the payload of this invocation
    vi,         \* notifier: index into product(SEGMENTS, PAGES)
    results,    \* notifier: extract_data's view rows
    ci,         \* notifier: index into the (segment, group, feature) iteration
    acc,        \* notifier: the running sum() of the current feature group
    rows,       \* notifier: extract_data's click rows
    message,    \* notifier: the figures of build_message
    nexc,       \* notifier: the exception caught by lambda_handler's except
    nraised,    \* notifier: the exception that left lambda_handler
    calls,      \* every external call issued, in order
    logged,     \* logger.error records
    faults      \* analytics responses so far that were not a plain one-row result

vars == <<signup_churn, signups_by_coupon, coupon_rows, epc, conn, cursor, result, eexc, eraised, inflight, npc, event, vi,
          results, ci, acc, rows, message, nexc, nraised, calls, logged, faults>>

wvars == <<signup_churn, signups_by_coupon>>
evars == <<coupon_rows, epc, conn, cursor, result, eexc, eraised>>
nvars == <<npc, event, vi, results, ci, acc, rows, message, nexc, nraised, faults>>

(***************************************************************************)
(* Bounds of the model.                                                    *)
(***************************************************************************)
\* coupon rows returned by one coupon-performance query
MaxCoupons == 2
\* analytics responses of one notifier run that are not a plain one-row result
MaxFaults == 1

(***************************************************************************)
(* Python values: a type tag and a number (floats in hundredths).          *)
(***************************************************************************)
PyInt(n) == [t |-> "int", v |-> n]
PyFloat(n) == [t |-> "float", v |-> n]
PyDecimal(n) == [t |-> "Decimal", v |-> n]
PyStr == [t |-> "str", v |-> 0]
None == [t |-> "NoneType", v |-> 0]

\* isinstance(x, Decimal)
IsDecimal(x) == x.t = "Decimal"

\* float(x) of a Decimal
ToFloat(x) == PyFloat(x.v)

(***************************************************************************)
(* Python str operations.                                                  *)
(***************************************************************************)
\* s.endswith(suf)
EndsWith(s, suf) ==
    /\ Len(s) >= Len(suf)
    /\ SubSeq(s, Len(s) - Len(suf) + 1, Len(s)) = suf

\* s.replace(old, new): every non-overlapping occurrence, left to right
RECURSIVE Replace(_, _, _)
Replace(s, old, new) ==
    IF Len(s) < Len(old) THEN s
    ELSE IF SubSeq(s, 1, Len(old)) = old
         THEN new \o Replace(SubSeq(s, Len(old) + 1, Len(s)), old, new)
         ELSE SubSeq(s, 1, 1) \o Replace(SubSeq(s, 2, Len(s)), old, new)

\* dict.update / item assignment: the entries of e win over those of d
Update(d, e) == e @@ d

\* dict.get(key, default)
Get(d, k, default) == IF k \in DOMAIN d THEN d[k] ELSE default

\* dict(zip(cols, row)): zip stops at the shorter of the two
Zip(cols, row) ==
    LET n == IF Len(cols) < Len(row) THEN Len(cols) ELSE Len(row)
    IN  [k \in {cols[i] : i \in 1..n} |->
            row[CHOOSE i \in 1..n : cols[i] = k /\ \A j \in (i+1)..n : cols[j] # k]]

EmptyDict == [k \in {} |-> None]

(***************************************************************************)
(* The warehouse. A date is known by the window it falls in, relative to   *)
(* CURRENT_DATE: "today" (on or after it), "week" (the 7 days before it),  *)
(* "month" (within one month before it, older than 7 days), "older".       *)
(***************************************************************************)
SqlNull == "<NULL>"

Dates == {"today", "week", "month", "older"}

\* d >= CURRENT_DATE - INTERVAL '7 days'
Since7Days(d) == d \in {"today", "week"}
\* d >= CURRENT_DATE - INTERVAL '1 month'
Since1Month(d) == d \in {"today", "week", "month"}
\* d < CURRENT_DATE
BeforeToday(d) == d # "today"

\* the column names of static_metrics_query, in select order
StaticCols ==
    << "report_date", "total", "trials", "daily_bot2025_trials",
       "revenue30_trials", "active_subscriptions", "past_due_subscriptions",
       "yearly_subscriptions", "cancelled_subscriptions", "cancel_after_trial",
       "cancel_during_trial", "ios_first_time_downloads", "ios_total_downloads",
       "google_play_active_installs" >>

\* one row of daily_bot_stats_daily as static_metrics_query selects it
StaticRow(n) ==
    << PyStr, PyInt(n), PyInt(n), PyInt(n), PyInt(n), PyInt(n), PyInt(n),
       PyInt(n), PyInt(n), PyInt(n), PyInt(n), PyInt(n), PyInt(n), PyInt(n) >>

\* the contents daily_bot_stats_daily may have: the query has no WHERE and
\* no LIMIT, so it returns one row per row of the table
StaticResultSets == { <<>>, <<StaticRow(7)>>, <<StaticRow(7), StaticRow(8)>> }

\* the column names of churn_query, in select order
ChurnCols ==
    << "churn_conversion_all", "churn_canceled_all", "churn_none_all",
       "churn_new_signup_all", "churn_past_due_all",
       "churn_conversion_week", "churn_canceled_week", "churn_none_week",
       "churn_new_signup_week", "churn_past_due_week",
       "churn_conversion_month", "churn_canceled_month", "churn_none_month",
       "churn_new_signup_month", "churn_past_due_month" >>

\* rows daily_bot_signup_churn may hold
ChurnRowPool ==
    { [email |-> "a@x", status |-> "Canceled", status_date |-> "week"],
      [email |-> "a@x", status |-> "Conversion", status_date |-> "older"] }

\* the contents daily_bot_signup_churn may have
ChurnTables == { {}, ChurnRowPool }

\* COUNT(DISTINCT CASE WHEN <cond> THEN email END): NULLs are not counted,
\* and the count of no rows is 0
CountDistinctEmail(rs) == PyInt(Cardinality({r.email : r \in rs} \ {SqlNull}))

\* the five aggregates of one churn CTE over the rows rs its WHERE keeps;
\* recent is the set of dates its past-due column's condition accepts
ChurnCte(rs, recent) ==
    << CountDistinctEmail({r \in rs : r.status = "Conversion"}),
       CountDistinctEmail({r \in rs : r.status = "Canceled"}),
       CountDistinctEmail({r \in rs : r.status = "None"}),
       CountDistinctEmail({r \in rs : r.status = "New Signup"}),
       CountDistinctEmail({r \in rs : r.status_date \in recent}) >>

\* the rows the WHERE clause of each churn CTE keeps
ChurnWindow(tbl, period) ==
    LET nn == {r \in tbl : r.email # SqlNull}
    IN  CASE period = "all" -> nn
          [] period = "week" ->
                {r \in nn : Since7Days(r.status_date) /\ BeforeToday(r.status_date)}
          [] period = "month" ->
                {r \in nn : Since1Month(r.status_date) /\ BeforeToday(r.status_date)}

\* churn_query: the CROSS JOIN of the three one-row CTEs is one row
ChurnQuery(tbl) ==
    ChurnCte(ChurnWindow(tbl, "all"), {d \in Dates : Since7Days(d)})
    \o ChurnCte(ChurnWindow(tbl, "week"), {d \in Dates : Since7Days(d)})
    \o ChurnCte(ChurnWindow(tbl, "month"), {d \in Dates : Since1Month(d)})

\* rows daily_bot_trial_signups_by_coupon may hold
SignupRowPool ==
    { [id |-> 1, coupon_code |-> "SAVE10", signup_date |-> "month"],
      [id |-> 2, coupon_code |-> SqlNull, signup_date |-> "older"] }

\* the contents daily_bot_trial_signups_by_coupon may have
SignupTables == { {}, SignupRowPool }

\* coupon_code IS NULL OR coupon_code = 'No Coupon Code'
WithoutCoupon(r) == r.coupon_code = SqlNull \/ r.coupon_code = "No Coupon Code"

\* SUM(CASE WHEN <cond> THEN 1 ELSE 0 END) over the rows rs, of which the
\* rows in hits meet <cond>: SUM over no rows is NULL
SumCase(rs, hits) ==
    IF rs = {} THEN None ELSE PyInt(Cardinality(hits))

\* COUNT(1)
Count1(rs) == PyInt(Cardinality(rs))

\* one CTE of signup_query over the rows rs its WHERE keeps
SignupCte(period, rs) ==
    << period,
       SumCase(rs, {r \in rs : WithoutCoupon(r)}),
       SumCase(rs, {r \in rs : ~WithoutCoupon(r)}),
       Count1(rs) >>

\* the rows the WHERE clause of each signup CTE keeps
SignupWindow(tbl, period) ==
    CASE period = "all" -> {r \in tbl : BeforeToday(r.signup_date)}
      [] period = "last_week" ->
            {r \in tbl : Since7Days(r.signup_date) /\ BeforeToday(r.signup_date)}
      [] period = "last_month" ->
            {r \in tbl : Since1Month(r.signup_date) /\ BeforeToday(r.signup_date)}

\* signup_query: the UNION ALL of the three one-row CTEs
SignupQuery(tbl) ==
    << SignupCte("all", SignupWindow(tbl, "all")),
       SignupCte("last_week", SignupWindow(tbl, "last_week")),
       SignupCte("last_month", SignupWindow(tbl, "last_month")) >>

\* rows coupon_query may return (code, active, trials, convs, rate); the
\* rate column arrives as a Decimal, a float or an int
CouponRowPool ==
    { << "SAVE10", PyInt(5), PyInt(20), PyInt(8), PyDecimal(40) >>,
      << "No Coupon Code", PyInt(50), PyInt(100), PyInt(60), PyInt(60) >>,
      << "SAVE10_coupon_active_subscriptions_v2", PyInt(2), PyInt(6), PyInt(3), PyFloat(50) >> }

\* the result sets of coupon_query: one row per distinct coupon code
RECURSIVE SeqsUpTo(_, _)
SeqsUpTo(S, n) ==
    IF n = 0 THEN {<<>>}
    ELSE LET shorter == SeqsUpTo(S, n - 1)
         IN  shorter \cup
             { Append(q, x) : q \in {p \in shorter : Len(p) = n - 1}, x \in S }

CouponResultSets ==
    { q \in SeqsUpTo(CouponRowPool, MaxCoupons) :
        \A i, j \in 1..Len(q) : i # j => q[i][1] # q[j][1] }

(***************************************************************************)
(* get_data_from_redshift: the flattening of the four result sets.         *)
(***************************************************************************)
\* the four entries of one coupon row with the conversions stored under the
\* trials key
CouponEntries_SameKey(row) ==
    LET code == row[1]
        rate == row[5]
    IN  ((code \o "_coupon_active_subscriptions") :> row[2])
        @@ ((code \o "_total_trials") :> row[3])
        @@ ((code \o "_total_trials") :> row[4])
        @@ ((code \o "_conversion_rate") :>
                (IF IsDecimal(rate) THEN ToFloat(rate) ELSE rate))

\* the four entries one coupon row adds
CouponEntries(row) ==
    LET code == row[1]
        rate == row[5]
    IN  ((code \o "_coupon_active_subscriptions") :> row[2])
        @@ ((code \o "_total_trials") :> row[3])
        @@ ((code \o "_total_conversions") :> row[4])
        @@ ((code \o "_conversion_rate") :>
                (IF IsDecimal(rate) THEN ToFloat(rate) ELSE rate))

\* for row in cursor.fetchall(): result[...] = ...
RECURSIVE FlattenCoupons(_, _)
FlattenCoupons(d, rs) ==
    IF rs = <<>> THEN d
    ELSE FlattenCoupons(Update(d, CouponEntries(Head(rs))), Tail(rs))

\* the three entries one signup row adds
SignupEntries(row) ==
    LET period == row[1]
    IN  ((period \o "_new_signups_without_coupon") :> row[2])
        @@ ((period \o "_new_signups_with_coupon") :> row[3])
        @@ ((period \o "_total_new_signups") :> row[4])

\* for period, without_coupon, with_coupon, total in rows: result[...] = ...
RECURSIVE FlattenSignups(_, _)
FlattenSignups(d, rs) ==
    IF rs = <<>> THEN d
    ELSE FlattenSignups(Update(d, SignupEntries(Head(rs))), Tail(rs))

\* json.dumps raises TypeError on a Decimal; every other value of the
\* mapping comes back from json.loads as it went in
JsonSerializable(d) == \A k \in DOMAIN d : ~IsDecimal(d[k])

(***************************************************************************)
(* The extractor's run: lambda_handler and get_data_from_redshift, one     *)
(* step per external call.                                                 *)
(***************************************************************************)
\* one external call, as the outside world sees it
Call(job, op, arg, ok, n) == [job |-> job, op |-> op, arg |-> arg, ok |-> ok, n |-> n]

\* the exception that leaves a lambda_handler whose except block caught
\* orig: send_sns_notification re-raises its own publish error from inside
\* the except block, before the handler's bare raise is reached
Propagated(orig, publish_ok) == IF publish_ok THEN orig ELSE "SNSPublishError"

\* psycopg2.connect and conn.cursor(), wrapped in the RuntimeError
Extract_Connect ==
    /\ epc = "start"
    /\ \E ok \in BOOLEAN :
          /\ calls' = Append(calls, Call("extract", "connect", "redshift", ok, 0))
          /\ IF ok
             THEN /\ conn' = "open"
                  /\ cursor' = "open"
                  /\ result' = EmptyDict
                  /\ epc' = "static"
                  /\ eexc' = eexc
             ELSE /\ eexc' = "RuntimeError"
                  /\ epc' = "except"
                  /\ UNCHANGED <<conn, cursor, result>>
    /\ UNCHANGED <<coupon_rows, eraised, inflight, logged>>
    /\ UNCHANGED nvars
    /\ UNCHANGED wvars

\* 1) static_metrics_query: execute, fetchone, dict(zip(cols, row))
Extract_StaticMetrics ==
    /\ epc = "static"
    /\ \E ok \in BOOLEAN, rs \in StaticResultSets :
          /\ calls' = Append(calls,
                Call("extract", "query", "static_metrics_query", ok,
                     IF ok THEN Len(rs) ELSE 0))
          /\ IF ~ok
             THEN /\ eexc' = "DatabaseError"
                  /\ epc' = "except"
                  /\ result' = result
             ELSE IF rs = <<>>
             \* fetchone() is None and zip(cols, None) raises
             THEN /\ eexc' = "TypeError"
                  /\ epc' = "except"
                  /\ result' = result
             ELSE /\ result' = Update(result, Zip(StaticCols, Head(rs)))
                  /\ epc' = "churn"
                  /\ eexc' = eexc
    /\ UNCHANGED <<coupon_rows, conn, cursor, eraised, inflight, logged>>
    /\ UNCHANGED nvars
    /\ UNCHANGED wvars

\* 2) churn_query: execute, fetchone, dict(zip(churn_cols, churn_row))
Extract_Churn ==
    /\ epc = "churn"
    /\ \E ok \in BOOLEAN :
          /\ calls' = Append(calls, Call("extract", "query", "churn_query", ok,
                                         IF ok THEN 1 ELSE 0))
          /\ IF ~ok
             THEN /\ eexc' = "DatabaseError"
                  /\ epc' = "except"
                  /\ result' = result
             ELSE /\ result' = Update(result, Zip(ChurnCols, ChurnQuery(signup_churn)))
                  /\ epc' = "coupon"
                  /\ eexc' = eexc
    /\ UNCHANGED <<coupon_rows, conn, cursor, eraised, inflight, logged>>
    /\ UNCHANGED nvars
    /\ UNCHANGED wvars

\* 3) coupon_query: execute, fetchall, four entries per row
Extract_Coupons ==
    /\ epc = "coupon"
    /\ \E ok \in BOOLEAN, rs \in CouponResultSets :
          /\ calls' = Append(calls, Call("extract", "query", "coupon_query", ok,
                                         IF ok THEN Len(rs) ELSE 0))
          /\ IF ~ok
             THEN /\ eexc' = "DatabaseError"
                  /\ epc' = "except"
                  /\ UNCHANGED <<result, coupon_rows>>
             ELSE /\ coupon_rows' = rs
                  /\ result' = FlattenCoupons(result, rs)
                  /\ epc' = "signup"
                  /\ eexc' = eexc
    /\ UNCHANGED <<conn, cursor, eraised, inflight, logged>>
    /\ UNCHANGED nvars
    /\ UNCHANGED wvars

\* 4) signup_query: execute, fetchall, three entries per row; then
\* cursor.close(), conn.close() and return result
Extract_Signups ==
    /\ epc = "signup"
    /\ \E ok \in BOOLEAN :
          /\ calls' = Append(calls, Call("extract", "query", "signup_query", ok,
                                         IF ok THEN 3 ELSE 0))
          /\ IF ~ok
             THEN /\ eexc' = "DatabaseError"
                  /\ epc' = "except"
                  /\ UNCHANGED <<result, conn, cursor>>
             ELSE /\ result' = FlattenSignups(result, SignupQuery(signups_by_coupon))
                  /\ cursor' = "closed"
                  /\ conn' = "closed"
                  /\ epc' = "invoke"
                  /\ eexc' = eexc
    /\ UNCHANGED <<coupon_rows, eraised, inflight, logged>>
    /\ UNCHANGED nvars
    /\ UNCHANGED wvars

\* lambda_client.invoke(InvocationType='Event', Payload=json.dumps(result))
Extract_Invoke ==
    /\ epc = "invoke"
    /\ IF ~JsonSerializable(result)
       THEN /\ eexc' = "TypeError"
            /\ epc' = "except"
            /\ UNCHANGED <<calls, inflight>>
       ELSE \E ok \in BOOLEAN :
            /\ calls' = Append(calls,
                  Call("extract", "invoke", "daily_bot-stats-notify", ok, 0))
            /\ IF ok
               THEN /\ inflight' = Append(inflight, result)
                    /\ epc' = "returned"
                    /\ eexc' = eexc
               ELSE /\ eexc' = "ClientError"
                    /\ epc' = "except"
                    /\ inflight' = inflight
    /\ UNCHANGED <<coupon_rows, conn, cursor, result, eraised, logged>>
    /\ UNCHANGED nvars
    /\ UNCHANGED wvars

\* except Exception as e: logger.error, send_sns_notification, raise
Extract_Except ==
    /\ epc = "except"
    /\ \E ok \in BOOLEAN :
          /\ calls' = Append(calls, Call("extract", "publish", "sns", ok, 0))
          /\ logged' = logged
                \cup {"Lambda daily_bot_stats_extract failed"}
                \cup (IF ok THEN {} ELSE {"extract: Failed to send SNS notification"})
          /\ eraised' = Propagated(eexc, ok)
    /\ epc' = "raised"
    /\ UNCHANGED <<coupon_rows, conn, cursor, result, eexc, inflight>>
    /\ UNCHANGED nvars
    /\ UNCHANGED wvars

(***************************************************************************)
(* The notifier's configuration and the analytics API.                     *)
(***************************************************************************)
\* the dicts keep insertion order: (name, id) items
SEGMENTS == << <<"Segment-A", "seg-a">>, <<"Segment-B", "seg-b">> >>

PAGES == << <<"Web", "page-web">>, <<"iOS", "page-ios">>, <<"Android", "page-android">> >>

FEATURE_GROUPS ==
    << <<"Roleplay", << "feat-roleplay" >> >>,
       <<"Automation", << "feat-auto-1", "feat-auto-2", "feat-auto-3" >> >> >>

\* the product with the leftmost iterable advancing fastest
Product_LeftFastest(A, B) ==
    [k \in 1..(Len(A) * Len(B)) |->
        << A[((k - 1) % Len(A)) + 1], B[((k - 1) \div Len(A)) + 1] >>]

\* itertools.product(A, B): the rightmost iterable advances fastest
Product(A, B) ==
    [k \in 1..(Len(A) * Len(B)) |->
        << A[((k - 1) \div Len(B)) + 1], B[((k - 1) % Len(B)) + 1] >>]

RECURSIVE Flat(_)
Flat(ss) == IF ss = <<>> THEN <<>> ELSE Head(ss) \o Flat(Tail(ss))

\* the clicks_for_feature calls of extract_data's nested loops, in order:
\* for each segment, for each group, the generator over the group's features
ClickPlan ==
    Flat([i \in 1..Len(SEGMENTS) |->
        Flat([g \in 1..Len(FEATURE_GROUPS) |->
            [f \in 1..Len(FEATURE_GROUPS[g][2]) |->
                [seg_name |-> SEGMENTS[i][1], seg_id |-> SEGMENTS[i][2],
                 grp_name |-> FEATURE_GROUPS[g][1],
                 fid |-> FEATURE_GROUPS[g][2][f],
                 last |-> f = Len(FEATURE_GROUPS[g][2])]]])])

\* what the analytics API may answer to a query summing into field: an
\* error status, a body without "results", an empty "results" list, one row
AnalyticsResponses(field) ==
    { [status |-> 500, has_results |-> FALSE, results |-> <<>>],
      [status |-> 200, has_results |-> FALSE, results |-> <<>>],
      [status |-> 200, has_results |-> TRUE, results |-> <<>>],
      [status |-> 200, has_results |-> TRUE, results |-> << (field :> 3) >>] }

\* a successful response with one result row
PlainRow(resp) == resp.status = 200 /\ resp.has_results /\ resp.results # <<>>

\* a status check that never raises
RaisesForStatus_Never(resp) == FALSE

\* resp.raise_for_status() raises
RaisesForStatus(resp) == resp.status >= 400

\* view_rows = resp.json().get("results", []);
\* total_views = view_rows[0]["views"] if view_rows else 0
TotalViews(resp) ==
    LET view_rows == IF resp.has_results THEN resp.results ELSE <<>>
    IN  IF view_rows # <<>> THEN view_rows[1]["views"] ELSE 0

\* r.json().get("results", [{}]): the default is used only when the key is absent
ClickResults(resp) == IF resp.has_results THEN resp.results ELSE << <<>> >>

\* ...[0] raises IndexError on an empty list
ClicksRaises(resp) == ClickResults(resp) = <<>>

\* ...[0].get("clicks", 0)
Clicks(resp) == Get(ClickResults(resp)[1], "clicks", 0)

(***************************************************************************)
(* build_message: the figures of the report.                               *)
(***************************************************************************)
Uppers == "ABCDEFGHIJKLMNOPQRSTUVWXYZ"
Lowers == "abcdefghijklmnopqrstuvwxyz"

\* str.lower(), ASCII
RECURSIVE Lower(_)
Lower(s) ==
    IF s = "" THEN ""
    ELSE LET c == SubSeq(s, 1, 1)
             up == {i \in 1..Len(Uppers) : SubSeq(Uppers, i, i) = c}
         IN  (IF up = {} THEN c
              ELSE LET i == CHOOSE i \in up : TRUE IN SubSeq(Lowers, i, i))
             \o Lower(SubSeq(s, 2, Len(s)))

ActiveSuffix == "_coupon_active_subscriptions"

\* the keys the comprehension of coupon_prefixes keeps
ActiveKeys(ev) == {k \in DOMAIN ev : EndsWith(k, ActiveSuffix)}

\* the prefix the comprehension derives from one kept key
CouponPrefix(key) == Replace(key, ActiveSuffix, "")

\* sum(event.get(f"{p}{suffix}", 0) for p in coupon_prefixes if keep), one
\* term per kept key (coupon_prefixes is a list: a prefix derived from two
\* keys is summed twice)
RECURSIVE SumOverKeys(_, _, _)
SumOverKeys(ev, keys, suffix) ==
    IF keys = {} THEN 0
    ELSE LET k == CHOOSE k \in keys : TRUE
         IN  Get(ev, CouponPrefix(k) \o suffix, PyInt(0)).v
             + SumOverKeys(ev, keys \ {k}, suffix)

BuildMessage(ev) ==
    LET keys == ActiveKeys(ev)
        nocoupon == {k \in keys : Lower(CouponPrefix(k)) = "no coupon code"}
    IN  [ total |-> Get(ev, "total", PyInt(0)).v,
          total_active_users |-> SumOverKeys(ev, keys, ActiveSuffix),
          trials_without_coupon |->
              IF nocoupon = {} THEN 0
              ELSE Get(ev, CouponPrefix(CHOOSE k \in nocoupon : TRUE)
                           \o "_total_trials", PyInt(0)).v,
          trials_with_coupon |-> SumOverKeys(ev, keys \ nocoupon, "_total_trials") ]

(***************************************************************************)
(* The notifier's run: lambda_handler and extract_data, one step per       *)
(* external call.                                                          *)
(***************************************************************************)
NoMessage == [total |-> 0, total_active_users |-> 0,
              trials_without_coupon |-> 0, trials_with_coupon |-> 0]

\* the Event invocation arrives: lambda_handler starts with the payload
Notify_Start ==
    /\ npc = "idle"
    /\ inflight # <<>>
    /\ event' = Head(inflight)
    /\ inflight' = Tail(inflight)
    /\ npc' = "views"
    /\ UNCHANGED <<vi, results, ci, acc, rows, message, nexc, nraised, faults>>
    /\ UNCHANGED <<calls, logged>>
    /\ UNCHANGED evars
    /\ UNCHANGED wvars

\* one pass of extract_data's first loop: the view query of one
\* (segment, page) pair
Notify_ViewQuery ==
    /\ npc = "views"
    /\ LET pair == Product(SEGMENTS, PAGES)[vi]
           name == pair[1][1] \o "-" \o pair[2][1]
       IN  \E resp \in AnalyticsResponses("views") :
             /\ PlainRow(resp) \/ faults < MaxFaults
             /\ faults' = IF PlainRow(resp) THEN faults ELSE faults + 1
             /\ calls' = Append(calls,
                   Call("notify", "views", name, resp.status = 200,
                        Len(resp.results)))
             /\ IF RaisesForStatus(resp)
                THEN /\ nexc' = "HTTPError"
                     /\ npc' = "except"
                     /\ UNCHANGED <<vi, results>>
                ELSE /\ results' = Append(results,
                           [Segment |-> pair[1][1], Page |-> pair[2][1],
                            Views |-> TotalViews(resp)])
                     /\ vi' = vi + 1
                     /\ npc' = IF vi = Len(Product(SEGMENTS, PAGES))
                               THEN "clicks" ELSE "views"
                     /\ nexc' = nexc
    /\ UNCHANGED <<event, ci, acc, rows, message, nraised, inflight, logged>>
    /\ UNCHANGED evars
    /\ UNCHANGED wvars

\* one clicks_for_feature call of extract_data's second loop; the row of a
\* feature group is appended when the sum over its features is complete
Notify_ClickQuery ==
    /\ npc = "clicks"
    /\ LET step == ClickPlan[ci]
       IN  \E resp \in AnalyticsResponses("clicks") :
             /\ PlainRow(resp) \/ faults < MaxFaults
             /\ faults' = IF PlainRow(resp) THEN faults ELSE faults + 1
             /\ calls' = Append(calls,
                   Call("notify", "clicks", step.seg_id \o "/" \o step.fid,
                        resp.status = 200, Len(resp.results)))
             /\ IF RaisesForStatus(resp)
                THEN /\ nexc' = "HTTPError"
                     /\ npc' = "except"
                     /\ UNCHANGED <<ci, acc, rows>>
                ELSE IF ClicksRaises(resp)
                THEN /\ nexc' = "IndexError"
                     /\ npc' = "except"
                     /\ UNCHANGED <<ci, acc, rows>>
                ELSE /\ IF step.last
                        THEN /\ rows' = Append(rows,
                                   [Segment |-> step.seg_name,
                                    FeatureGroup |-> step.grp_name,
                                    Clicks |-> acc + Clicks(resp)])
                             /\ acc' = 0
                        ELSE /\ acc' = acc + Clicks(resp)
                             /\ rows' = rows
                     /\ ci' = ci + 1
                     /\ npc' = IF ci = Len(ClickPlan) THEN "send" ELSE "clicks"
                     /\ nexc' = nexc
    /\ UNCHANGED <<event, vi, results, message, nraised, inflight, logged>>
    /\ UNCHANGED evars
    /\ UNCHANGED wvars

\* build_message, then send_to_slack: the webhook post and its
\* raise_for_status, wrapped in "Failed to send to Slack"
Notify_Send ==
    /\ npc = "send"
    /\ message' = BuildMessage(event)
    /\ \E ok \in BOOLEAN :
          /\ calls' = Append(calls, Call("notify", "post", "slack", ok, 0))
          /\ IF ok
             THEN /\ npc' = "returned"
                  /\ nexc' = nexc
             ELSE /\ npc' = "except"
                  /\ nexc' = "SlackError"
    /\ UNCHANGED <<event, vi, results, ci, acc, rows, nraised, faults, inflight, logged>>
    /\ UNCHANGED evars
    /\ UNCHANGED wvars

\* except Exception as e: logger.error, send_sns_notification, raise
Notify_Except ==
    /\ npc = "except"
    /\ \E ok \in BOOLEAN :
          /\ calls' = Append(calls, Call("notify", "publish", "sns", ok, 0))
          /\ logged' = logged
                \cup {"Lambda job revii_stats_notify failed"}
                \cup (IF ok THEN {} ELSE {"notify: Failed to send SNS notification"})
          /\ nraised' = Propagated(nexc, ok)
    /\ npc' = "raised"
    /\ UNCHANGED <<event, vi, results, ci, acc, rows, message, nexc, faults, inflight>>
    /\ UNCHANGED evars
    /\ UNCHANGED wvars

Init ==
    /\ signup_churn \in ChurnTables
    /\ signups_by_coupon \in SignupTables
    /\ coupon_rows = <<>>
    /\ epc = "start"
    /\ conn = "none"
    /\ cursor = "none"
    /\ result = EmptyDict
    /\ eexc = "none"
    /\ eraised = "none"
    /\ inflight = <<>>
    /\ npc = "idle"
    /\ event = EmptyDict
    /\ vi = 1
    /\ results = <<>>
    /\ ci = 1
    /\ acc = 0
    /\ rows = <<>>
    /\ message = NoMessage
    /\ nexc = "none"
    /\ nraised = "none"
    /\ calls = <<>>
    /\ logged = {}
    /\ faults = 0

Next ==
    \/ Extract_Connect
    \/ Extract_StaticMetrics
    \/ Extract_Churn
    \/ Extract_Coupons
    \/ Extract_Signups
    \/ Extract_Invoke
    \/ Extract_Except
    \/ Notify_Start
    \/ Notify_ViewQuery
    \/ Notify_ClickQuery
    \/ Notify_Send
    \/ Notify_Except

Spec == Init /\ [][Next]_vars

(***************************************************************************)
(* Properties.                                                             *)
(***************************************************************************)
\* get_data_from_redshift has returned: the mapping is complete
Flattened == epc \in {"invoke", "returned"}

IsViewCall(c) == c.job = "notify" /\ c.op = "views"
IsClickCall(c) == c.job = "notify" /\ c.op = "clicks"

\* C1: whenever the extractor has ended, by returning or by raising, the
\* warehouse connection it opened is no longer open.
C1_ConnectionClosedOnEveryPath ==
    epc \in {"returned", "raised"} => conn # "open"

\* C2: each job issues its outbound delivery (the handoff invoke, the chat
\* webhook post) at most once, and only after every earlier external call of
\* that run succeeded: the connect and all four warehouse queries, all six
\* view queries and all eight per-feature click queries. After a failed
\* analytics query no chat message is posted.
C2_NoPartialDelivery ==
    LET invokes == {i \in DOMAIN calls : calls[i].op = "invoke"}
        posts == {i \in DOMAIN calls : calls[i].op = "post"}
        Before(i, job) == {j \in 1..(i - 1) : calls[j].job = job}
    IN  /\ Cardinality(invokes) <= 1
        /\ Cardinality(posts) <= 1
        /\ \A i \in invokes :
              /\ \A j \in Before(i, "extract") : calls[j].ok
              /\ {calls[j].arg : j \in {k \in Before(i, "extract") : calls[k].op = "query"}}
                    = {"static_metrics_query", "churn_query", "coupon_query", "signup_query"}
        /\ \A i \in posts :
              /\ \A j \in Before(i, "notify") : calls[j].ok
              /\ Cardinality({j \in Before(i, "notify") : IsViewCall(calls[j])}) = 6
              /\ Cardinality({j \in Before(i, "notify") : IsClickCall(calls[j])}) = 8
        /\ (\E j \in DOMAIN calls :
                (IsViewCall(calls[j]) \/ IsClickCall(calls[j])) /\ ~calls[j].ok)
              => posts = {}

\* C2 witness: a run that posted the report after all fourteen analytics calls
C2_Delivered ==
    /\ npc = "returned"
    /\ \E i \in DOMAIN calls : calls[i].op = "post" /\ calls[i].ok
    /\ \E i \in DOMAIN calls : calls[i].op = "invoke" /\ calls[i].ok

\* C3: the exception that leaves lambda_handler, in the extractor and in the
\* notifier, is the run's original exception, also when the publish to the
\* failure-notification channel failed.
C3_OriginalExceptionPropagates ==
    /\ epc = "raised" => eraised = eexc
    /\ npc = "raised" => nraised = nexc

\* C4: in the flattened mapping, every churn count and every signup count of
\* a period whose window holds no rows is the integer 0, never null.
C4_EmptyWindowCountsAreZero ==
    Flattened =>
      /\ \A p \in {"all", "week", "month"} :
            ChurnWindow(signup_churn, p) = {} =>
              \A m \in {"churn_conversion_", "churn_canceled_", "churn_none_",
                        "churn_new_signup_", "churn_past_due_"} :
                 (m \o p) \in DOMAIN result /\ result[m \o p] = PyInt(0)
      /\ \A p \in {"all", "last_week", "last_month"} :
            SignupWindow(signups_by_coupon, p) = {} =>
              \A m \in {"_new_signups_without_coupon", "_new_signups_with_coupon",
                        "_total_new_signups"} :
                 (p \o m) \in DOMAIN result /\ result[p \o m] = PyInt(0)

\* the keys of the static, churn and signup classes
FixedKeys ==
    {StaticCols[i] : i \in DOMAIN StaticCols}
    \cup {ChurnCols[i] : i \in DOMAIN ChurnCols}
    \cup {p \o m : p \in {"all", "last_week", "last_month"},
                   m \in {"_new_signups_without_coupon", "_new_signups_with_coupon",
                          "_total_new_signups"}}

\* C5: for every coupon row (C, active, trials, convs, rate) of the run the
\* flattened mapping holds active under C_coupon_active_subscriptions,
\* trials under C_total_trials, convs under C_total_conversions and the rate
\* under C_conversion_rate; its keys are exactly the 14 static, 15 churn and
\* 9 signup keys plus these four per coupon code, all distinct, so no key
\* of one code or class overwrites another.
C5_FourKeysPerCoupon ==
    Flattened =>
      /\ \A i \in DOMAIN coupon_rows :
            LET row == coupon_rows[i]
                C == row[1]
            IN  /\ {C \o "_coupon_active_subscriptions", C \o "_total_trials",
                    C \o "_total_conversions", C \o "_conversion_rate"}
                      \subseteq DOMAIN result
                /\ result[C \o "_coupon_active_subscriptions"] = row[2]
                /\ result[C \o "_total_trials"] = row[3]
                /\ result[C \o "_total_conversions"] = row[4]
                /\ result[C \o "_conversion_rate"].v = row[5].v
      /\ DOMAIN result =
            FixedKeys \cup
            {coupon_rows[i][1] \o suf :
                i \in DOMAIN coupon_rows,
                suf \in {"_coupon_active_subscriptions", "_total_trials",
                         "_total_conversions", "_conversion_rate"}}
      /\ Cardinality(DOMAIN result) = 14 + 15 + 9 + 4 * Len(coupon_rows)

\* C5 witness: a mapping flattened from two coupon rows
C5_TwoCouponsFlattened ==
    /\ Flattened
    /\ Len(coupon_rows) = 2
    /\ "SAVE10_total_trials" \in DOMAIN result

\* the sum of the active-subscription counts of the coupon rows
RECURSIVE SumActive(_)
SumActive(rs) == IF rs = <<>> THEN 0 ELSE Head(rs)[2].v + SumActive(Tail(rs))

\* C6: the "Total Active Users" figure of the report equals the sum of the
\* active-subscription counts of the coupon rows the extractor flattened.
C6_TotalActiveUsersIsSum ==
    (npc = "returned" \/ nexc = "SlackError") =>
        message.total_active_users = SumActive(coupon_rows)

\* C7: the value stored under C_conversion_rate is a plain float for every
\* coupon row, whatever numeric type the warehouse returned.
C7_ConversionRateIsFloat ==
    Flattened =>
        \A i \in DOMAIN coupon_rows :
            result[coupon_rows[i][1] \o "_conversion_rate"].t = "float"

ExpectedViewOrder ==
    << "Segment-A-Web", "Segment-A-iOS", "Segment-A-Android",
       "Segment-B-Web", "Segment-B-iOS", "Segment-B-Android" >>

\* C8: the view queries are issued one per (segment, page) pair in
\* segment-major order, never more than six; the view rows are in that same
\* order; every view query precedes every click query; and a run whose
\* analytics calls all succeeded issued exactly six.
C8_ViewQueriesSegmentMajor ==
    LET vc == SelectSeq(calls, IsViewCall)
    IN  /\ Len(vc) <= 6
        /\ \A k \in DOMAIN vc : vc[k].arg = ExpectedViewOrder[k]
        /\ Len(results) <= Len(vc)
        /\ \A k \in DOMAIN results :
              results[k].Segment \o "-" \o results[k].Page = ExpectedViewOrder[k]
        /\ \A i, j \in DOMAIN calls :
              IsViewCall(calls[i]) /\ IsClickCall(calls[j]) => i < j
        /\ (\E j \in DOMAIN calls : IsClickCall(calls[j])) => Len(vc) = 6
        /\ npc \in {"send", "returned"} => Len(vc) = 6 /\ Len(results) = 6

\* C8 witness: a run in which every analytics call succeeded
C8_AllViewsQueried ==
    /\ npc = "returned"
    /\ faults = 0
    /\ Len(results) = 6
    /\ Len(rows) = 4

\* C9: when the snapshot query returned zero rows or more than one row, no
\* mapping is forwarded to the notifier.
C9_SnapshotMustBeOneRow ==
    (\E i \in DOMAIN calls :
        /\ calls[i].arg = "static_metrics_query"
        /\ calls[i].ok
        /\ calls[i].n # 1)
    => /\ \A j \in DOMAIN calls : calls[j].op # "invoke"
       /\ epc # "returned"

\* the click row that the k-th clicks_for_feature call sums into
ClickRowOf(k) == Cardinality({j \in 1..(k - 1) : ClickPlan[j].last}) + 1

\* C10: a successful analytics response without result rows counts as 0 and
\* does not raise: its view row holds 0, its click query adds 0 to the sum
\* of its feature group, and the run is not in its except block after a
\* successful analytics response.
C10_NoRowsCountsAsZero ==
    LET vc == SelectSeq(calls, IsViewCall)
        cc == SelectSeq(calls, IsClickCall)
    IN  /\ \A k \in DOMAIN results : vc[k].n = 0 => results[k].Views = 0
        /\ \A g \in DOMAIN rows :
              rows[g].Clicks =
                 3 * Cardinality({k \in DOMAIN cc : ClickRowOf(k) = g /\ cc[k].n > 0})
        /\ (/\ npc = "except"
            /\ calls # <<>>
            /\ (IsViewCall(calls[Len(calls)]) \/ IsClickCall(calls[Len(calls)])))
              => ~calls[Len(calls)].ok

====
